---- MODULE Spec2Model ----
(***************************************************************************)
(* A model of mooremachine (the FSM runtime with state handles).          *)
(*                                                                         *)
(* A state name is a sequence of tokens, "." being the separator token:   *)
(* 'initial.sub1' is <<"initial", ".", "sub1">>.  An FSM subclass is a    *)
(* table of entry functions; an entry function is a list of statements    *)
(* run against the state handle it is given.  One action of the model is  *)
(* one turn of the host's event loop: the host calls into the library     *)
(* (an emit, a timer, an immediate, a direct call on a handle) and the    *)
(* whole synchronous call chain that follows runs to completion.          *)
(***************************************************************************)
EXTENDS Integers, Sequences, FiniteSets, TLC

\* ------------------------------------------------------------------ bounds

\* No turn starts once an FSM has entered this many states.
MaxEntered == 4

\* The same for the program that fills the history.
MaxHistory == 9

\* ------------------------------------------------------------- JS values

Dot == "."
\* the JS value undefined where a state name is expected
Undefined == <<"undefined!">>
\* the JS value undefined where a list of state names is expected
UndefinedList == <<Undefined>>
\* the JS value undefined where a handle is expected
NoHandle == 0
NoError == "none"

Name1(a) == <<a>>
Name2(a, b) == <<a, Dot, b>>
Name3(a, b, c) == <<a, Dot, b, Dot, c>>

RECURSIVE SplitAcc(_, _, _, _)
SplitAcc(s, i, cur, acc) ==
    IF i > Len(s) THEN Append(acc, cur)
    ELSE IF s[i] = Dot THEN SplitAcc(s, i + 1, <<>>, Append(acc, cur))
    ELSE SplitAcc(s, i + 1, Append(cur, s[i]), acc)

\* String.prototype.split('.'): the segments between the dots
split(s) == SplitAcc(s, 1, <<>>, <<>>)

\* String.prototype.indexOf(p) === 0
StartsWith(s, p) == Len(p) <= Len(s) /\ SubSeq(s, 1, Len(p)) = p

\* Array.prototype.indexOf(x) !== -1
Includes(list, x) == \E i \in 1..Len(list) : list[i] = x

\* the list without its element at index i
RemoveAt(list, i) == SubSeq(list, 1, i - 1) \o SubSeq(list, i + 1, Len(list))

RECURSIVE LastIndexOf(_, _, _)
LastIndexOf(list, x, i) ==
    IF i = 0 THEN 0
    ELSE IF list[i] = x THEN i
    ELSE LastIndexOf(list, x, i - 1)

RECURSIVE SelectIds(_, _)
\* the entries of a queue of [id, cb] whose id is not in ids, order kept
SelectIds(q, ids) ==
    IF q = <<>> THEN <<>>
    ELSE IF Includes(ids, Head(q).id) THEN SelectIds(Tail(q), ids)
    ELSE <<Head(q)>> \o SelectIds(Tail(q), ids)

\* ------------------------------------------------- entry functions as data

\* S.on(em, evt, function () { S.gotoState(target); })
On(em, evt, target) == [op |-> "on", em |-> em, evt |-> evt, target |-> target]
\* em.on(evt, function () { try { S.gotoState(target); } catch (ex) { err = ex; } })
EmitterOnTry(em, evt, target) ==
    [op |-> "emitterOnTry", em |-> em, evt |-> evt, target |-> target]
\* em.on(evt, S.callback(function () { S.gotoState(target); }))
EmitterOnCallback(em, evt, target) ==
    [op |-> "emitterOnCallback", em |-> em, evt |-> evt, target |-> target]
\* S.timeout(ms, function () { S.gotoState(target); })
Timeout(target) == [op |-> "timeout", target |-> target]
\* S.interval(ms, function () { S.gotoState(target); })
Interval(target) == [op |-> "interval", target |-> target]
\* S.immediate(function () { S.gotoState(target); })
Immediate(target) == [op |-> "immediate", target |-> target]
\* S.validTransitions(list)
ValidTransitions(list) == [op |-> "validTransitions", list |-> list]
\* S.gotoState(target), inline in the entry function
GotoState(target) == [op |-> "gotoState", target |-> target]
\* em.emit(evt), inline in the entry function
EmitStmt(em, evt) == [op |-> "emit", em |-> em, evt |-> evt]
\* a statement that raises
ThrowStmt(kind) == [op |-> "throw", kind |-> kind]

\* a value that is not a function (typeof (f) !== 'function')
NotAFunction == [isFn |-> FALSE]
\* a function object: its body and its own properties that are functions
Fn(body, subs) == [isFn |-> TRUE, body |-> body, subs |-> subs]
NoSubs == <<>>

\* Properties every function object inherits. Object.prototype.valueOf
\* returns its receiver; Function.prototype.toString raises a TypeError when
\* its receiver is not a function. (Representatives of the inherited
\* properties that return and of those that raise.)
FunctionPrototype ==
    <<"valueOf">> :> Fn(<<>>, NoSubs) @@
    <<"toString">> :> Fn(<<ThrowStmt("TypeError")>>, NoSubs)

initial == Name1("initial")
next == Name1("next")
\* a name is a sequence of pieces of text: 'next' is a prefix of 'next2'
next2 == <<"next", "2">>
notnext == Name1("notnext")
initial_sub1 == Name2("initial", "sub1")
initial_sub2 == Name2("initial", "sub2")
s1 == Name1("s1")
s2 == Name1("s2")
s3 == Name1("s3")

\* test 'substates'
ClassSubstates == [ allStateEvents |-> <<>>, states |->
    <<"initial">> :> Fn(<<On("this", "foo", next), On("this", "bar", initial_sub1)>>,
        <<"sub1">> :> Fn(<<On("this", "foobar", initial_sub2)>>, NoSubs) @@
        <<"sub2">> :> Fn(<<On("this", "baz", initial_sub1)>>, NoSubs)) @@
    <<"next">> :> Fn(<<ValidTransitions(<<>>)>>, NoSubs) ]

\* test 're-entry to parent state'
ClassReentry == [ allStateEvents |-> <<>>, states |->
    <<"initial">> :> Fn(<<On("this", "foo", initial_sub1)>>,
        <<"sub1">> :> Fn(<<On("this", "bar", initial)>>, NoSubs)) ]

\* test 're-entry into same state'
ClassReentrySame == [ allStateEvents |-> <<>>, states |->
    <<"initial">> :> Fn(<<On("this", "foo", initial)>>, NoSubs) ]

\* test 'S.on works, emits stateChanged'
ClassSOn == [ allStateEvents |-> <<>>, states |->
    <<"initial">> :> Fn(<<On("e", "foo", notnext), Immediate(next)>>, NoSubs) @@
    <<"next">> :> Fn(<<ValidTransitions(<<>>)>>, NoSubs) ]

\* test 'double transition'
ClassDouble == [ allStateEvents |-> <<>>, states |->
    <<"initial">> :> Fn(<<EmitterOnTry("e", "foo", next)>>, NoSubs) @@
    <<"next">> :> Fn(<<ValidTransitions(<<>>)>>, NoSubs) ]

\* test 'validTransitions'
ClassValid == [ allStateEvents |-> <<>>, states |->
    <<"initial">> :> Fn(<<ValidTransitions(<<next>>), On("this", "foo", next),
                          On("this", "foo2", next2)>>, NoSubs) @@
    <<"next">> :> Fn(<<ValidTransitions(<<>>)>>, NoSubs) @@
    next2 :> Fn(<<ValidTransitions(<<>>)>>, NoSubs) ]

\* test 'unknown state'
ClassUnknown == [ allStateEvents |-> <<>>, states |->
    <<"initial">> :> Fn(<<On("this", "foo", next),
                          On("this", "bar", Name2("initial", "bad"))>>, NoSubs) ]

\* test 'callbacks'
ClassCallbacks == [ allStateEvents |-> <<>>, states |->
    <<"initial">> :> Fn(<<EmitterOnCallback("e", "foo", next),
                          EmitterOnCallback("e", "foobar", next2)>>, NoSubs) @@
    <<"next">> :> Fn(<<ValidTransitions(<<>>)>>, NoSubs) @@
    next2 :> Fn(<<ValidTransitions(<<>>)>>, NoSubs) ]

\* test 'timeouts'
ClassTimeouts == [ allStateEvents |-> <<>>, states |->
    <<"s1">> :> Fn(<<On("this", "foo", s2), Timeout(s3)>>, NoSubs) @@
    <<"s2">> :> Fn(<<Timeout(s1)>>, NoSubs) @@
    <<"s3">> :> Fn(<<On("this", "foo", s1)>>, NoSubs) ]

\* test 'all state events'
ClassAllState == [ allStateEvents |-> <<"foo">>, states |->
    <<"s1">> :> Fn(<<On("this", "foo", s2), On("this", "bar", s3)>>, NoSubs) @@
    <<"s2">> :> Fn(<<Timeout(s1)>>, NoSubs) @@
    <<"s3">> :> Fn(<<On("this", "foo", s1)>>, NoSubs) ]

\* an FSM with the all-state event 'foo', a sub-state that registers
\* nothing, and a state that registers nothing and leaves inline
ClassAllStateSub == [ allStateEvents |-> <<"foo">>, states |->
    <<"s1">> :> Fn(<<On("this", "foo", Name2("s1", "quiet")), On("this", "bar", s2)>>,
        <<"quiet">> :> Fn(<<>>, NoSubs)) @@
    <<"s2">> :> Fn(<<GotoState(s1)>>, NoSubs) ]

\* test 'interacting FSMs'
ClassA == [ allStateEvents |-> <<>>, states |->
    <<"s1">> :> Fn(<<On("this", "foo", s2)>>, NoSubs) @@
    <<"s2">> :> Fn(<<On("other", "baz", s3), EmitStmt("this", "bar")>>, NoSubs) @@
    <<"s3">> :> Fn(<<EmitStmt("this", "baz"), GotoState(s1)>>, NoSubs) ]

ClassB == [ allStateEvents |-> <<>>, states |->
    <<"s1">> :> Fn(<<On("other", "bar", s2)>>, NoSubs) @@
    <<"s2">> :> Fn(<<On("other", "baz", s3), EmitStmt("this", "baz")>>, NoSubs) @@
    <<"s3">> :> Fn(<<GotoState(s1)>>, NoSubs) ]

connected == Name1("connected")
connected_busy == Name2("connected", "busy")
connected_idle == Name2("connected", "idle")
closed == Name1("closed")

\* the ThingFSM of the README's section on sub-states (no work available)
ClassThing == [ allStateEvents |-> <<>>, states |->
    <<"connected">> :> Fn(<<On("e", "close", closed), GotoState(connected_idle)>>,
        <<"busy">> :> Fn(<<On("e", "finished", connected)>>, NoSubs) @@
        <<"idle">> :> Fn(<<On("this", "workAvailable", connected_busy)>>, NoSubs)) @@
    <<"closed">> :> Fn(<<>>, NoSubs) ]

\* a state with two listeners for one event of one emitter, and a state
\* with an interval that leaves when one of its own stateChanged events
\* is delivered
ClassFanout == [ allStateEvents |-> <<>>, states |->
    <<"s1">> :> Fn(<<On("e", "foo", s2), On("e", "foo", s3)>>, NoSubs) @@
    <<"s2">> :> Fn(<<Interval(s1), On("this", "stateChanged", s3)>>, NoSubs) @@
    <<"s3">> :> Fn(<<On("e", "foo", s1)>>, NoSubs) ]

missing == Name1("missing")

\* a state whose entry function leaves inline towards a state that the
\* class does not define
ClassInlineUnknown == [ allStateEvents |-> <<>>, states |->
    <<"initial">> :> Fn(<<On("this", "foo", next)>>, NoSubs) @@
    <<"next">> :> Fn(<<GotoState(missing)>>, NoSubs) ]

Classes ==
    "InlineUnknown" :> ClassInlineUnknown @@
    "Substates" :> ClassSubstates @@ "Reentry" :> ClassReentry @@
    "SOn" :> ClassSOn @@ "Double" :> ClassDouble @@ "Valid" :> ClassValid @@
    "Unknown" :> ClassUnknown @@ "Callbacks" :> ClassCallbacks @@
    "Timeouts" :> ClassTimeouts @@ "AllState" :> ClassAllState @@
    "A" :> ClassA @@ "B" :> ClassB @@ "Thing" :> ClassThing @@
    "Fanout" :> ClassFanout @@ "AllStateSub" :> ClassAllStateSub @@
    "ReentrySame" :> ClassReentrySame

\* The programs: which objects are constructed (in this order), of which
\* class and in which initial state, which events the host emits and which
\* targets user code passes when it calls gotoState on a handle it holds.
One(cls, init, events, targets) ==
    [ order |-> <<"a">>, cls |-> ("a" :> cls), other |-> ("a" :> "e"),
      init |-> ("a" :> init), events |-> events, targets |-> targets,
      limit |-> MaxEntered ]

\* a program that runs long enough for the history to drop names
Long(p) == [p EXCEPT !.limit = MaxHistory]

Programs ==
    "substates" :> One("Substates", initial,
        {<<"a", "foo">>, <<"a", "bar">>, <<"a", "foobar">>, <<"a", "baz">>},
        {next, initial_sub2, Name2("initial", "valueOf")}) @@
    "reentry" :> One("Reentry", initial, {<<"a", "foo">>, <<"a", "bar">>},
        {initial, Name3("initial", "sub1", "x")}) @@
    "son" :> One("SOn", initial, {<<"e", "foo">>}, {next}) @@
    "double" :> One("Double", initial, {<<"e", "foo">>}, {initial}) @@
    "valid" :> One("Valid", initial, {<<"a", "foo">>, <<"a", "foo2">>},
        {next, next2}) @@
    "unknown" :> One("Unknown", initial, {<<"a", "foo">>, <<"a", "bar">>},
        {initial, Name2("initial", "toString"), Name2("initial", "valueOf"),
         Name2("initial", "")}) @@
    "callbacks" :> One("Callbacks", initial, {<<"e", "foo">>, <<"e", "foobar">>},
        {next2}) @@
    "timeouts" :> One("Timeouts", s1, {<<"a", "foo">>}, {s2}) @@
    "allstate" :> One("AllState", s1, {<<"a", "foo">>, <<"a", "bar">>}, {s3}) @@
    "interacting" :>
        [ order |-> <<"b", "a">>, cls |-> ("a" :> "A" @@ "b" :> "B"),
          other |-> ("a" :> "b" @@ "b" :> "a"),
          init |-> ("a" :> s1 @@ "b" :> s1),
          events |-> {<<"a", "foo">>}, targets |-> {s2}, limit |-> MaxEntered ] @@
    "thing" :> One("Thing", connected,
        {<<"e", "close">>, <<"e", "finished">>, <<"a", "workAvailable">>},
        {connected_busy, closed}) @@
    "fanout" :> One("Fanout", s1, {<<"e", "foo">>}, {s3}) @@
    "history" :> Long(One("Timeouts", s1, {<<"a", "foo">>}, {})) @@
    "reentrysame" :> One("ReentrySame", initial, {<<"a", "foo">>}, {initial}) @@
    "allstatesub" :> One("AllStateSub", s1, {<<"a", "foo">>, <<"a", "bar">>},
        {Name2("s1", "quiet")}) @@
    "inlineunknown" :> One("InlineUnknown", initial, {<<"a", "foo">>}, {initial})

Emitters == {"a", "b", "e"}
Events == {"foo", "bar", "baz", "foobar", "foo2", "close", "finished",
           "workAvailable", "stateChanged"}

\* the capacity test of the history: length >= HistoryLimit drops the oldest
HistoryLimit == 8

\* --------------------------------------------------------------- state

VARIABLES
    prog,         \* the program that runs (a key of Programs)
    constructed,  \* whether the constructors have run
    fsm,          \* the FSM objects: fsm[f].fsm_state, .fsm_handle, ...
    handles,      \* the FSMStateHandle objects ever allocated, by allocation
    listeners,    \* the host's emitters: listeners[<<em, evt>>], in order
    timers,       \* the host's pending timeouts and intervals
    immediates,   \* the host's queue of immediates, oldest first
    observed,     \* per FSM, the names its stateChanged observer received
    entered,      \* per FSM, every state entered so far (history, unbounded)
    torn,         \* the handles disconnect() has run on
    used,         \* the handles on which a gotoState call returned normally
    accepted,     \* per FSM, the targets of the calls gotoState let through
    completed,    \* per FSM, the states whose transition ran to its end
    lastErr,      \* what the last turn raised to the host (NoError if nothing)
    log,          \* what happened during the last turn, in order
    lib,          \* an FSM of the earlier interface (src/lib/fsm.js)
    adapter       \* an emitter made by FSM.wrap (src/lib/fsm.js)

\* the variables of the programs that use the current interface
programVars == <<prog, constructed, fsm, handles, listeners, timers, immediates,
                 observed, entered, torn, used, accepted, completed, lastErr, log>>

vars == <<prog, constructed, fsm, handles, listeners, timers, immediates,
          observed, entered, torn, used, accepted, completed, lastErr, log,
          lib, adapter>>

\* The state as one value, threaded through the calls of one turn.
World ==
    [ fsm |-> fsm, handles |-> handles, listeners |-> listeners,
      timers |-> timers, immediates |-> immediates, observed |-> observed,
      entered |-> entered, torn |-> torn, used |-> used, accepted |-> accepted,
      completed |-> completed, err |-> NoError, log |-> <<>> ]

\* the errors the code raises: 'already used' and 'Invalid FSM transition'
\* (gotoState), 'Unknown FSM state' and 'Unknown FSM sub-state',
\* assert.ok and the 'FSM consistency error' (_gotoState), and a
\* TypeError of the host
ErrorKinds == {"AlreadyUsed", "InvalidTransition", "UnknownState", "UnknownSubState",
               "AssertionError", "ConsistencyError", "TypeError"}

Failed(w) == w.err # NoError
\* throw (new Error(...))
Throw(w, kind) == [w EXCEPT !.err = kind]
Log(w, ev, f, h, name) ==
    [w EXCEPT !.log = Append(@, [ev |-> ev, fsm |-> f, h |-> h, name |-> name])]

\* a closure created by statement pc of the entry function that got handle h
Closure(type, f, h, pc, target) ==
    [type |-> type, fsm |-> f, h |-> h, pc |-> pc, target |-> target]

\* ------------------------------------------------------ host: emitters

\* EventEmitter.prototype.on
EmitterOn(w, em, evt, cb) == [w EXCEPT !.listeners[<<em, evt>>] = Append(@, cb)]

\* EventEmitter.prototype.removeListener: the most recently added instance
RemoveListener(w, em, evt, cb) ==
    LET ls == w.listeners[<<em, evt>>]
        i == LastIndexOf(ls, cb, Len(ls))
    IN IF i = 0 THEN w ELSE [w EXCEPT !.listeners[<<em, evt>>] = RemoveAt(ls, i)]

\* ------------------------------------------------------ FSMStateHandle

FSMStateHandle(f, state, link) ==
    [ fsh_fsm |-> f, fsh_link |-> link, fsh_state |-> state, fsh_valid |-> TRUE,
      fsh_listeners |-> <<>>, fsh_timeouts |-> <<>>, fsh_intervals |-> <<>>,
      fsh_immediates |-> <<>>, fsh_validTransitions |-> UndefinedList,
      fsh_nextState |-> Undefined ]

FSMStateHandle_validTransitions(w, h, states) ==
    [w EXCEPT !.handles[h].fsh_validTransitions = states]

RECURSIVE RemoveListeners(_, _, _)
RemoveListeners(w, ls, i) ==
    IF i > Len(ls) THEN w
    ELSE RemoveListeners(RemoveListener(w, ls[i][1], ls[i][2], ls[i][3]), ls, i + 1)

RECURSIVE FSMStateHandle_disconnect(_, _)
FSMStateHandle_disconnect(w, h) ==
    LET hd == w.handles[h]
        w1 == RemoveListeners(w, hd.fsh_listeners, 1)
        w2 == [w1 EXCEPT
                 !.timers = {t \in @ :
                     ~ \/ t.kind = "timeout" /\ Includes(hd.fsh_timeouts, t.id)
                       \/ t.kind = "interval" /\ Includes(hd.fsh_intervals, t.id)},
                 !.immediates = SelectIds(@, hd.fsh_immediates),
                 !.handles[h].fsh_listeners = <<>>,
                 !.handles[h].fsh_timeouts = <<>>,
                 !.handles[h].fsh_intervals = <<>>,
                 !.handles[h].fsh_immediates = <<>>,
                 !.torn = @ \cup {h}]
        w3 == Log(w2, "disconnect", hd.fsh_fsm, h, hd.fsh_state)
    IN IF hd.fsh_link # NoHandle THEN FSMStateHandle_disconnect(w3, hd.fsh_link)
       ELSE w3

FSMStateHandle_on(w, h, em, evt, cb) ==
    [EmitterOn(w, em, evt, cb) EXCEPT
        !.handles[h].fsh_listeners = Append(@, <<em, evt, cb>>)]

\* setInterval returns a fresh token: here the closure's (handle, statement)
FSMStateHandle_interval(w, h, cb) ==
    [w EXCEPT !.timers = @ \cup {[id |-> <<cb.h, cb.pc>>, kind |-> "interval", cb |-> cb]},
              !.handles[h].fsh_intervals = Append(@, <<cb.h, cb.pc>>)]

FSMStateHandle_timeout(w, h, cb) ==
    [w EXCEPT !.timers = @ \cup {[id |-> <<cb.h, cb.pc>>, kind |-> "timeout", cb |-> cb]},
              !.handles[h].fsh_timeouts = Append(@, <<cb.h, cb.pc>>)]

FSMStateHandle_immediate(w, h, cb) ==
    [w EXCEPT !.immediates = Append(@, [id |-> <<cb.h, cb.pc>>, cb |-> cb]),
              !.handles[h].fsh_immediates = Append(@, <<cb.h, cb.pc>>)]

\* ----------------------------------------------------------------- FSM

\* an object on which the constructor has set its fields (before the
\* initial transition); fsm_nextState is not set by the constructor
NewFSM(cls, other) ==
    [ cls |-> cls, other |-> other,
      fsm_history |-> <<>>, fsm_handle |-> NoHandle, fsm_inTransition |-> FALSE,
      fsm_allStateEvents |-> Classes[cls].allStateEvents,
      fsm_state |-> Undefined, fsm_toEmit |-> <<>>, fsm_nextState |-> Undefined ]

FSM_getState(w, f) == w.fsm[f].fsm_state

\* a test of the beginning of the name alone, without the dot
Mutant_isInState_prefix(w, f, state) == StartsWith(w.fsm[f].fsm_state, state)

FSM_isInState(w, f, state) ==
    \/ w.fsm[f].fsm_state = state
    \/ StartsWith(w.fsm[f].fsm_state, state \o <<Dot>>)

\* this['state_' + root]
StateFunction(cls, root) ==
    IF root \in DOMAIN Classes[cls].states THEN Classes[cls].states[root]
    ELSE NotAFunction

\* f[sub], a property of a function object: its own, else an inherited one
Property(f, sub) ==
    IF sub \in DOMAIN f.subs THEN f.subs[sub]
    ELSE IF sub \in DOMAIN FunctionPrototype THEN FunctionPrototype[sub]
    ELSE NotAFunction

\* the emitter an entry function names
Resolve(w, f, ref) ==
    IF ref = "this" THEN f ELSE IF ref = "other" THEN w.fsm[f].other ELSE ref

RECURSIVE ChainOf(_, _)
\* the handles reachable from h by link, h included
ChainOf(w, h) ==
    IF h = NoHandle THEN {} ELSE {h} \cup ChainOf(w, w.handles[h].fsh_link)

\* some listener or timer registered through a handle of hs is still in place
LeftBehind(w, hs) ==
    \/ \E k \in DOMAIN w.listeners : \E i \in 1..Len(w.listeners[k]) :
          w.listeners[k][i].type = "goto" /\ w.listeners[k][i].h \in hs
    \/ \E t \in w.timers : t.id[1] \in hs
    \/ \E i \in 1..Len(w.immediates) : w.immediates[i].id[1] \in hs

\* a history that never drops a name
Mutant_PushHistory_unbounded(hist, state) == Append(hist, state)

\* fsm_history.push(state); if (length >= 8) shift()
PushHistory(hist, state) ==
    LET pushed == Append(hist, state)
    IN IF Len(pushed) >= HistoryLimit THEN Tail(pushed) ELSE pushed

\* the all-state events for which the FSM has no listener
MissingAllStateEvents(w, f) ==
    {i \in 1..Len(w.fsm[f].fsm_allStateEvents) :
        Len(w.listeners[<<f, w.fsm[f].fsm_allStateEvents[i]>>]) < 1}

\* a handle that can be used again
Mutant_AlreadyUsed_never(hd) == FALSE

\* if (!this.fsh_valid)
AlreadyUsed(hd) == ~hd.fsh_valid

\* a handle that ignores its list of valid transitions
Mutant_InvalidTransition_never(hd, state) == FALSE

\* if (this.fsh_validTransitions !== undefined)
\*     if (this.fsh_validTransitions.indexOf(state) === -1)
InvalidTransition(hd, state) ==
    /\ hd.fsh_validTransitions # UndefinedList
    /\ ~Includes(hd.fsh_validTransitions, state)

\* a transition that never waits for the running entry function
Mutant_InTransition_never(me) == FALSE

\* if (this.fsm_inTransition)
InTransition(me) == me.fsm_inTransition

\* if (parts[0] !== newParts[0] && this.fsm_handle !== undefined)
RootChanges(me, state) ==
    LET parts == IF me.fsm_state # Undefined /\ me.fsm_state # <<>>
                 THEN split(me.fsm_state) ELSE << <<>> >>
        newParts == split(state)
    IN parts[1] # newParts[1] /\ me.fsm_handle # NoHandle

\* a handle allocated without a link to the previous one
Mutant_LinkOfNewHandle_none(me) == NoHandle

\* the link of the handle allocated for the state entered: this.fsm_handle
LinkOfNewHandle(me) == me.fsm_handle

\* a deferred emission scheduled at every transition
Mutant_FirstToEmit_always(toEmit) == TRUE

\* if (this.fsm_toEmit.length === 1), after the push
FirstToEmit(toEmit) == Len(toEmit) = 1

RECURSIVE FSM_gotoState(_, _, _), FSMStateHandle_gotoState(_, _, _),
          Exec(_, _, _, _, _), Dispatch(_, _, _, _), EmitEach(_, _, _, _)

\* one statement of an entry function, run with handle h as S and f as this
ExecStmt(w, f, h, pc, st) ==
    CASE st.op = "on" ->
           FSMStateHandle_on(w, h, Resolve(w, f, st.em), st.evt,
                             Closure("goto", f, h, pc, st.target))
      [] st.op = "emitterOnTry" ->
           EmitterOn(w, Resolve(w, f, st.em), st.evt,
                     Closure("tryGoto", f, h, pc, st.target))
      [] st.op = "emitterOnCallback" ->
           EmitterOn(w, Resolve(w, f, st.em), st.evt,
                     Closure("callback", f, h, pc, st.target))
      [] st.op = "timeout" ->
           FSMStateHandle_timeout(w, h, Closure("goto", f, h, pc, st.target))
      [] st.op = "interval" ->
           FSMStateHandle_interval(w, h, Closure("goto", f, h, pc, st.target))
      [] st.op = "immediate" ->
           FSMStateHandle_immediate(w, h, Closure("goto", f, h, pc, st.target))
      [] st.op = "validTransitions" ->
           FSMStateHandle_validTransitions(w, h, st.list)
      [] st.op = "gotoState" ->
           FSMStateHandle_gotoState(Log(w, "inline", f, h, st.target), h, st.target)
      [] st.op = "emit" ->
           Dispatch(w, w.listeners[<<Resolve(w, f, st.em), st.evt>>], 1, Undefined)
      [] st.op = "throw" -> Throw(w, st.kind)

\* the entry function's statements from pc on; an exception ends it
Exec(w, f, h, body, pc) ==
    IF Failed(w) \/ pc > Len(body) THEN w
    ELSE Exec(ExecStmt(w, f, h, pc, body[pc]), f, h, body, pc + 1)

\* EventEmitter.prototype.emit: the listeners registered when the emit
\* starts are called in order, also those removed while it runs
Emit(w, em, evt, arg) == Dispatch(w, w.listeners[<<em, evt>>], 1, arg)

\* the deferred emission: the function given to setImmediate by _gotoState
Flush(w, f) ==
    EmitEach([w EXCEPT !.fsm[f].fsm_toEmit = <<>>], f, w.fsm[f].fsm_toEmit, 1)

EmitEach(w, f, ss, i) ==
    IF Failed(w) \/ i > Len(ss) THEN w
    ELSE EmitEach(Emit(w, f, "stateChanged", ss[i]), f, ss, i + 1)

\* try { ... } catch (ex) { err = ex; } around a call that ended in r
Caught(r, cb) ==
    IF cb.type = "tryGoto" /\ Failed(r)
    THEN Log([r EXCEPT !.err = NoError], r.err, cb.fsm, cb.h, cb.target)
    ELSE r

\* a callback that also runs when its handle is no longer valid
Mutant_callback_always(w, cb) == TRUE

\* the function returned by S.callback(cb) does nothing once the handle
\* is no longer valid: if (s.fsh_valid) return (cb.apply(this, args))
FSMStateHandle_callback(w, cb) == cb.type = "callback" => w.handles[cb.h].fsh_valid

\* cb.apply(this, args): the function given to S.callback is called with
\* the arguments of the call
Called(w, cb, arg) ==
    IF cb.type = "callback" THEN Log(w, "called", cb.fsm, cb.h, arg) ELSE w

\* a call of a closure
Invoke(w, cb, arg) ==
    CASE cb.type = "observer" ->
           Log([w EXCEPT !.observed[cb.fsm] = Append(@, arg)],
               "stateChanged", cb.fsm, Len(w.observed[cb.fsm]) + 1, arg)
      [] cb.type = "flush" -> Flush(w, cb.fsm)
      [] OTHER ->
           IF FSMStateHandle_callback(w, cb)
           THEN Caught(FSMStateHandle_gotoState(
                           Log(Called(w, cb, arg),
                               IF cb.type = "goto" /\ cb.h \in w.torn
                               THEN "stale" ELSE "invoke", cb.fsm, cb.h, cb.target),
                           cb.h, cb.target), cb)
           ELSE Log(w, "ignored", cb.fsm, cb.h, cb.target)

Dispatch(w, ls, i, arg) ==
    IF Failed(w) \/ i > Len(ls) THEN w
    ELSE Dispatch(Invoke(w, ls[i], arg), ls, i + 1, arg)

\* the call has returned normally or raised: the handle counts as used
\* when it returned normally
Returned(r, h) == IF Failed(r) THEN r ELSE [r EXCEPT !.used = @ \cup {h}]

\* a handle that stays valid after it has been used
Mutant_MarkUsed_staysValid(w, h, state) ==
    [w EXCEPT !.handles[h].fsh_nextState = state,
              !.accepted[w.handles[h].fsh_fsm] = Append(@, state)]

\* this.fsh_valid = false; this.fsh_nextState = state
MarkUsed(w, h, state) ==
    [w EXCEPT !.handles[h].fsh_valid = FALSE,
              !.handles[h].fsh_nextState = state,
              !.accepted[w.handles[h].fsh_fsm] = Append(@, state)]

\* gotoState that forgets to mark the handle as used
Mutant_gotoState_keepsValid(w, h, state) ==
    IF AlreadyUsed(w.handles[h]) THEN Throw(w, "AlreadyUsed")
    ELSE IF InvalidTransition(w.handles[h], state) THEN Throw(w, "InvalidTransition")
    ELSE Returned(FSM_gotoState(
                      [w EXCEPT !.handles[h].fsh_nextState = state,
                                !.accepted[w.handles[h].fsh_fsm] = Append(@, state)],
                      w.handles[h].fsh_fsm, state), h)

FSMStateHandle_gotoState(w, h, state) ==
    IF AlreadyUsed(w.handles[h]) THEN Throw(w, "AlreadyUsed")
    ELSE IF InvalidTransition(w.handles[h], state) THEN Throw(w, "InvalidTransition")
    ELSE Returned(FSM_gotoState(MarkUsed(w, h, state), w.handles[h].fsh_fsm, state), h)

\* a transition that forgets the next state queued by an inline call
Mutant_Drain_forgets(w, f) == [w EXCEPT !.fsm[f].fsm_nextState = Undefined]

\* var next = this.fsm_nextState; if (next !== undefined) { ... }
Drain(w, f) ==
    IF w.fsm[f].fsm_nextState # Undefined
    THEN FSM_gotoState([w EXCEPT !.fsm[f].fsm_nextState = Undefined], f,
                       w.fsm[f].fsm_nextState)
    ELSE w

\* an emission made at once, in the call stack of the transition
Mutant_ScheduleFlush_sync(w, f) == Flush(w, f)

\* setImmediate(function () { ... emit stateChanged ... }) if the name
\* pushed is the only one in fsm_toEmit
ScheduleFlush(w, f) ==
    IF FirstToEmit(w.fsm[f].fsm_toEmit)
    THEN [w EXCEPT !.immediates =
             Append(@, [id |-> <<NoHandle, 0>>,
                        cb |-> Closure("flush", f, NoHandle, 0, Undefined)])]
    ELSE w

\* this.fsm_toEmit.push(state)
PushToEmit(w, f, state) ==
    Log([w EXCEPT !.fsm[f].fsm_toEmit = Append(@, state),
                  !.completed[f] = Append(@, state)],
        "completed", f, Len(w.completed[f]) + 1, state)

\* a transition that does not check the all-state events
Mutant_AfterEntry_unchecked(w, f, state) ==
    Drain(ScheduleFlush(PushToEmit(w, f, state), f), f)

\* _gotoState after the entry function has returned: the all-state events
\* check, the deferred emission, the queued next state
AfterEntry(w, f, state) ==
    IF MissingAllStateEvents(w, f) # {} THEN Throw(w, "ConsistencyError")
    ELSE Drain(ScheduleFlush(PushToEmit(w, f, state), f), f)

\* this.fsm_inTransition = false, unless the entry function raised
EntryReturned(w, f, h, state) ==
    IF Failed(w) THEN w
    ELSE AfterEntry(Log([w EXCEPT !.fsm[f].fsm_inTransition = FALSE],
                        "return", f, h, state), f, state)

\* this.fsm_state = state; this.fsm_handle = new FSMStateHandle(...);
\* the history; this.fsm_inTransition = true
CommitState(w, f, state) ==
    Log([w EXCEPT
           !.fsm[f].fsm_state = state,
           !.handles = Append(@, FSMStateHandle(f, state, LinkOfNewHandle(w.fsm[f]))),
           !.fsm[f].fsm_handle = Len(w.handles) + 1,
           !.fsm[f].fsm_history = PushHistory(@, state),
           !.fsm[f].fsm_inTransition = TRUE,
           !.entered[f] = Append(@, state)],
        "enter", f, Len(w.handles) + 1, state)

\* a transition that sets the state and does not call the entry function
Mutant_Enter_skipsEntry(w, f, state, fn) ==
    EntryReturned(CommitState(w, f, state), f, Len(w.handles) + 1, state)

\* _gotoState from "this.fsm_state = state" on: fn is the entry function
Enter(w, f, state, fn) ==
    EntryReturned(Exec(CommitState(w, f, state), f, Len(w.handles) + 1, fn.body, 1),
                  f, Len(w.handles) + 1, state)

\* this.fsm_handle.disconnect(); this.fsm_handle = undefined
TearDown(w, f, state) ==
    LET d == [FSMStateHandle_disconnect(w, w.fsm[f].fsm_handle)
                 EXCEPT !.fsm[f].fsm_handle = NoHandle]
    IN Log(d, IF LeftBehind(d, ChainOf(w, w.fsm[f].fsm_handle))
              THEN "leftBehind" ELSE "tornDown", f, w.fsm[f].fsm_handle, state)

\* the entry function a state name resolves to
Resolution(cls, newParts) ==
    LET f0 == StateFunction(cls, newParts[1])
    IN IF ~f0.isFn THEN [isFn |-> FALSE, err |-> "UnknownState"]
       ELSE IF Len(newParts) = 1 THEN f0
       ELSE IF ~Property(f0, newParts[2]).isFn
            THEN [isFn |-> FALSE, err |-> "UnknownSubState"]
       ELSE Property(f0, newParts[2])

\* _gotoState from the look-up of the entry function on
Resolved(w, f, state, fn) ==
    IF ~fn.isFn THEN Throw(w, fn.err) ELSE Enter(w, f, state, fn)

\* a transition that waits while any FSM runs an entry function
Mutant_FSM_gotoState_sharedGuard(w, f, state) ==
    IF \E g \in DOMAIN w.fsm : InTransition(w.fsm[g])
    THEN IF w.fsm[f].fsm_nextState # Undefined THEN Throw(w, "AssertionError")
         ELSE Log([w EXCEPT !.fsm[f].fsm_nextState = state], "queued", f, NoHandle, state)
    ELSE Resolved(IF RootChanges(w.fsm[f], state) THEN TearDown(w, f, state)
                  ELSE Log(w, "kept", f, w.fsm[f].fsm_handle, state),
                  f, state, Resolution(w.fsm[f].cls, split(state)))

\* FSM.prototype._gotoState
FSM_gotoState(w, f, state) ==
    IF InTransition(w.fsm[f])
    THEN IF w.fsm[f].fsm_nextState # Undefined THEN Throw(w, "AssertionError")
         ELSE Log([w EXCEPT !.fsm[f].fsm_nextState = state], "queued", f, NoHandle, state)
    ELSE Resolved(IF RootChanges(w.fsm[f], state) THEN TearDown(w, f, state)
                  ELSE Log(w, "kept", f, w.fsm[f].fsm_handle, state),
                  f, state, Resolution(w.fsm[f].cls, split(state)))

\* a constructor that does not enter the initial state
Mutant_FSM_noInitial(w, f, defState) == w

\* the constructor: FSM.call(this, defState)
FSM(w, f, defState) == FSM_gotoState(w, f, defState)

RECURSIVE ConstructAll(_, _, _)
\* the constructors of the program's objects, in order; an exception ends it
ConstructAll(w, p, i) ==
    IF Failed(w) \/ i > Len(p.order) THEN w
    ELSE ConstructAll(FSM(w, p.order[i], p.init[p.order[i]]), p, i + 1)

RECURSIVE ObserveAll(_, _, _)
\* c.on('stateChanged', function (st) { history.push(st); }) on each FSM
ObserveAll(w, p, i) ==
    IF i > Len(p.order) THEN w
    ELSE ObserveAll(EmitterOn(w, p.order[i], "stateChanged",
                        Closure("observer", p.order[i], NoHandle, 0, Undefined)),
                    p, i + 1)

\* ------------------------------------ the library's earlier interface

\* src/lib/fsm.js: gotoState is a method of the FSM that emits stateChanged
\* before it returns; onState and FSM.wrap are defined on this interface.

MaxEmitted == 3
MaxCalls == 2
MaxRuns == 2
MaxInvocations == 3

idle == Name1("idle")
run == Name1("run")
run_fast == Name2("run", "fast")
\* 'run' is a prefix of 'run2'
run2 == <<"run", "2">>
hop == Name1("hop")

\* a class of the earlier interface: state_hop calls this.gotoState('run.fast')
LibClass ==
    <<"idle">> :> Fn(<<>>, NoSubs) @@
    <<"run">> :> Fn(<<>>, <<"fast">> :> Fn(<<>>, NoSubs)) @@
    <<"run", "2">> :> Fn(<<>>, NoSubs) @@
    <<"hop">> :> Fn(<<GotoState(run_fast)>>, NoSubs)

LibTargets == {idle, run, run_fast, run2, hop}

\* the listeners user code puts on stateChanged:
\* c.on('stateChanged', function (st) { if (st === from) c.gotoState(target); })
LibChains == {<<idle, run>>, <<run2, run_fast>>, <<run, idle>>, <<hop, run2>>}

\* the object before its constructor has run
NewLib ==
    [ fsm_state |-> Undefined, fsm_history |-> <<>>,
      fsm_stListeners |-> <<>>, fsm_stTimers |-> <<>>,
      ls |-> <<>>,        \* the listeners of stateChanged, in order
      fired |-> {},       \* the once wrappers that have fired
      wrappers |-> 0,     \* the once wrappers made so far
      calls |-> <<>>,     \* the calls of onState: the state asked for, the
                          \* state and the number of emits at the call, and
                          \* the emits at which cb was invoked (0: in the call)
      emitted |-> <<>>,   \* the names emitted as stateChanged, by start
      err |-> NoError ]

\* this['state_' + root]
LibStateFunction(root) ==
    IF root \in DOMAIN LibClass THEN LibClass[root] ELSE NotAFunction

\* this.fsm_state === state || this.fsm_state.indexOf(state + '.') === 0
Lib_isInState(o, state) ==
    \/ o.fsm_state = state
    \/ StartsWith(o.fsm_state, state \o <<Dot>>)

\* self.once('stateChanged', stateCb) for the call k of onState
Lib_once(o, k) ==
    [o EXCEPT !.ls = Append(@, [type |-> "stateCb", call |-> k, id |-> o.wrappers + 1]),
              !.wrappers = @ + 1]

\* cb(), at the emit numbered n
Lib_cb(o, k, n) == [o EXCEPT !.calls[k].invoked = Append(@, n)]

\* a stateCb that stays subscribed after it has called cb
Mutant_stateCb_stays(o, k, newState, n) ==
    Lib_once(IF newState # o.calls[k].state
                /\ ~StartsWith(newState, o.calls[k].state \o <<Dot>>)
             THEN o ELSE Lib_cb(o, k, n), k)

\* function stateCb(newState) of onState
Lib_stateCb(o, k, newState, n) ==
    IF newState # o.calls[k].state
       /\ ~StartsWith(newState, o.calls[k].state \o <<Dot>>)
    THEN Lib_once(o, k)
    ELSE Lib_cb(o, k, n)

\* FSM.prototype.onState
Lib_onState(o, state) ==
    IF Lib_isInState(o, state)
    THEN Lib_cb([o EXCEPT !.calls = Append(@, [state |-> state, was |-> o.fsm_state,
                                               at |-> Len(o.emitted), invoked |-> <<>>])],
                Len(o.calls) + 1, 0)
    ELSE Lib_once([o EXCEPT !.calls = Append(@, [state |-> state, was |-> o.fsm_state,
                                                 at |-> Len(o.emitted), invoked |-> <<>>])],
                  Len(o.calls) + 1)

\* the wrapper EventEmitter.prototype.once registers: it removes itself and
\* calls the listener, unless it has fired already
Lib_onceWrapper(o, l) ==
    [o EXCEPT !.fired = @ \cup {l.id},
              !.ls = SelectSeq(@, LAMBDA x : x # l)]

\* if (parts[0] !== newParts[0]): the listeners and timers of the state go
Lib_teardown(o, state) ==
    LET parts == IF o.fsm_state # Undefined /\ o.fsm_state # <<>>
                 THEN split(o.fsm_state) ELSE << <<>> >>
    IN IF parts[1] # split(state)[1]
       THEN [o EXCEPT !.fsm_stTimers = <<>>, !.fsm_stListeners = <<>>]
       ELSE o

RECURSIVE Lib_gotoState(_, _), Lib_exec(_, _, _), Lib_dispatch(_, _, _, _, _)

\* a listener of stateChanged is called with newState, by the emit numbered n
Lib_listener(o, l, newState, n) ==
    CASE l.type = "stateCb" ->
           IF l.id \in o.fired THEN o
           ELSE Lib_stateCb(Lib_onceWrapper(o, l), l.call, newState, n)
      [] l.type = "chain" ->
           IF newState = l.from THEN Lib_gotoState(o, l.target) ELSE o

\* the listeners registered when the emit starts are called in order
Lib_dispatch(o, ls, i, newState, n) ==
    IF Failed(o) \/ i > Len(ls) THEN o
    ELSE Lib_dispatch(Lib_listener(o, ls[i], newState, n), ls, i + 1, newState, n)

\* this.emit('stateChanged', state)
Lib_emit(o, state) ==
    Lib_dispatch([o EXCEPT !.emitted = Append(@, state)], o.ls, 1, state,
                 Len(o.emitted) + 1)

\* the entry function's statements from pc on: this.gotoState(target)
Lib_exec(o, body, pc) ==
    IF Failed(o) \/ pc > Len(body) THEN o
    ELSE Lib_exec(Lib_gotoState(o, body[pc].target), body, pc + 1)

\* this.fsm_state = state; the history; f.call(this, ...); this.emit(...)
Lib_enter(o, state, f) ==
    IF ~f.isFn THEN Throw(o, "UnknownSubState")
    ELSE Lib_emit(Lib_exec([o EXCEPT !.fsm_state = state,
                                     !.fsm_history = PushHistory(@, state)],
                           f.body, 1), state)

\* var f = this['state_' + newParts[0]]; f = f[newParts[1]]
Lib_resolve(o, state, newParts, f) ==
    IF ~f.isFn THEN Throw(o, "UnknownState")
    ELSE Lib_enter(o, state, IF Len(newParts) > 1 THEN Property(f, newParts[2]) ELSE f)

\* FSM.prototype.gotoState of the earlier interface
Lib_gotoState(o, state) ==
    IF Failed(o) THEN o
    ELSE Lib_resolve(Lib_teardown(o, state), state, split(state),
                     LibStateFunction(split(state)[1]))

\* function FSM(defState)
Lib_FSM(defState) == Lib_gotoState(NewLib, defState)

\* ------------------------------------------------------------ FSM.wrap

\* JavaScript values, by name; if (err) is taken for the truthy ones
Falsy == {"undefined", "null", "false", "0", "''"}
Truthy(v) == v \notin Falsy

\* the argument lists the wrapped function passes to its callback
AdapterResults ==
    { <<>>, <<"null">>, <<"null", "foobar">>, <<"null", "foobar", "baz">>,
      <<"0", "foobar">>, <<"Error: hi">>, <<"Error: hi", "foobar">>, <<"foobar", "null">> }

\* var req = wrapped('foobar'); req.once('error', ...); req.once('return', ...)
NewAdapter ==
    [ ran |-> 0,                  \* the calls of run()
      invocations |-> <<>>,       \* the argument lists cb was called with
      emitted |-> <<>>,           \* the events emitted, with their arguments
      ls |-> {"error", "return"}, \* the events that still have their listener
      received |-> <<>>,          \* what the listeners were called with
      err |-> NoError ]

\* EventEmitter.prototype.emit on the adapter: a once listener is removed and
\* called; 'error' without a listener is thrown
Adapter_emit(a, e) ==
    IF e.evt \in a.ls
    THEN [a EXCEPT !.emitted = Append(@, e), !.ls = @ \ {e.evt},
                   !.received = Append(@, e)]
    ELSE IF e.evt = "error"
    THEN [a EXCEPT !.emitted = Append(@, e), !.err = "Unhandled"]
    ELSE [a EXCEPT !.emitted = Append(@, e)]

\* a callback that passes all its arguments on as 'return'
Mutant_Adapter_event_return(resArgs) == [evt |-> "return", args |-> resArgs]

\* var err = resArgs.shift(); if (err) 'error', err; else 'return', resArgs
Adapter_event(resArgs) ==
    LET err == IF resArgs = <<>> THEN "undefined" ELSE Head(resArgs)
        rest == IF resArgs = <<>> THEN <<>> ELSE Tail(resArgs)
    IN IF Truthy(err) THEN [evt |-> "error", args |-> <<err>>]
       ELSE [evt |-> "return", args |-> rest]

\* a callback that emits for its first invocation only
Mutant_Adapter_cb_guarded(a, resArgs) ==
    IF a.invocations # <<>> THEN [a EXCEPT !.invocations = Append(@, resArgs)]
    ELSE Adapter_emit([a EXCEPT !.invocations = Append(@, resArgs)],
                      Adapter_event(resArgs))

\* var cb = function () { ... } of fsm_cb_wrapper
Adapter_cb(a, resArgs) ==
    Adapter_emit([a EXCEPT !.invocations = Append(@, resArgs)], Adapter_event(resArgs))

RECURSIVE Adapter_fun(_, _, _)
\* the wrapped function calls its callback with each of rs, in order
Adapter_fun(a, rs, i) ==
    IF Failed(a) \/ i > Len(rs) THEN a
    ELSE Adapter_fun(Adapter_cb(a, rs[i]), rs, i + 1)

\* eve.run = function () { fun.apply(self, args); }: the wrapped function
\* runs, and calls its callback with each of rs before it returns
Adapter_run(a, rs) == Adapter_fun([a EXCEPT !.ran = @ + 1], rs, 1)

\* ------------------------------------------------------------- actions

Commit(w) ==
    /\ fsm' = w.fsm
    /\ handles' = w.handles
    /\ listeners' = w.listeners
    /\ timers' = w.timers
    /\ immediates' = w.immediates
    /\ observed' = w.observed
    /\ entered' = w.entered
    /\ torn' = w.torn
    /\ used' = w.used
    /\ accepted' = w.accepted
    /\ completed' = w.completed
    /\ lastErr' = w.err
    /\ log' = w.log

FSMs == {Programs[prog].order[i] : i \in 1..Len(Programs[prog].order)}

\* the host starts no new turn once an FSM has entered as many states as
\* the program's limit
Running == constructed /\ \A f \in FSMs : Len(entered[f]) < Programs[prog].limit

Init ==
    /\ prog \in DOMAIN Programs
    /\ constructed = FALSE
    /\ fsm = [f \in FSMs |-> NewFSM(Programs[prog].cls[f], Programs[prog].other[f])]
    /\ handles = <<>>
    /\ listeners = [k \in Emitters \X Events |-> <<>>]
    /\ timers = {}
    /\ immediates = <<>>
    /\ observed = [f \in FSMs |-> <<>>]
    /\ entered = [f \in FSMs |-> <<>>]
    /\ torn = {}
    /\ used = {}
    /\ accepted = [f \in FSMs |-> <<>>]
    /\ completed = [f \in FSMs |-> <<>>]
    /\ lastErr = NoError
    /\ log = <<>>
    /\ lib = Lib_FSM(idle)
    /\ adapter = NewAdapter

\* var c = new Class(); c.on('stateChanged', ...): the program's first turn
Construct ==
    /\ ~constructed
    /\ constructed' = TRUE
    /\ Commit(ObserveAll(ConstructAll(World, Programs[prog], 1), Programs[prog], 1))
    /\ UNCHANGED <<prog, lib, adapter>>

\* the host (the test) emits an event: em.emit(evt)
HostEmit(em, evt) ==
    /\ Running
    /\ Commit(Emit(World, em, evt, Undefined))
    /\ UNCHANGED <<prog, constructed, lib, adapter>>

\* a timeout fires: its callback runs, once
TimeoutFires(t) ==
    /\ Running
    /\ t.kind = "timeout"
    /\ Commit(Invoke([World EXCEPT !.timers = @ \ {t}], t.cb, Undefined))
    /\ UNCHANGED <<prog, constructed, lib, adapter>>

\* an interval fires: its callback runs, and it stays scheduled
IntervalFires(t) ==
    /\ Running
    /\ t.kind = "interval"
    /\ Commit(Invoke(World, t.cb, Undefined))
    /\ UNCHANGED <<prog, constructed, lib, adapter>>

\* the oldest immediate runs
ImmediateRuns ==
    /\ constructed
    /\ immediates # <<>>
    /\ Commit(Invoke([World EXCEPT !.immediates = Tail(@)], Head(immediates).cb, Undefined))
    /\ UNCHANGED <<prog, constructed, lib, adapter>>

\* user code that kept handle h calls h.gotoState(target) in a turn of its own
DirectGoto(h, target) ==
    /\ Running
    /\ Commit(FSMStateHandle_gotoState(Log(World, "direct", handles[h].fsh_fsm, h, target),
                                       h, target))
    /\ UNCHANGED <<prog, constructed, lib, adapter>>

Next ==
    \/ Construct
    \/ \E k \in Programs[prog].events : HostEmit(k[1], k[2])
    \/ \E t \in timers : TimeoutFires(t)
    \/ \E t \in timers : IntervalFires(t)
    \/ ImmediateRuns
    \/ \E h \in 1..Len(handles), t \in Programs[prog].targets : DirectGoto(h, t)

Spec == Init /\ [][Next]_vars

\* ----------------------------------- actions of the earlier interface

\* the host calls c.gotoState(target)
LibGoto(target) ==
    /\ Len(lib.emitted) < MaxEmitted
    /\ lib' = Lib_gotoState([lib EXCEPT !.err = NoError], target)
    /\ UNCHANGED <<programVars, adapter>>

\* the host calls c.onState(state, cb)
LibOnState(state) ==
    /\ Len(lib.calls) < MaxCalls
    /\ lib' = Lib_onState([lib EXCEPT !.err = NoError], state)
    /\ UNCHANGED <<programVars, adapter>>

\* the host registers a listener of stateChanged that calls gotoState
LibChain(from, target) ==
    /\ \A i \in 1..Len(lib.ls) : lib.ls[i].type # "chain"
    /\ lib' = [lib EXCEPT !.err = NoError,
                          !.ls = Append(@, [type |-> "chain", from |-> from,
                                            target |-> target])]
    /\ UNCHANGED <<programVars, adapter>>

InitLib == Init /\ prog = "substates"

NextLib ==
    \/ \E t \in LibTargets : LibGoto(t)
    \/ \E s \in LibTargets : LibOnState(s)
    \/ \E c \in LibChains : LibChain(c[1], c[2])

SpecLib == InitLib /\ [][NextLib]_vars

\* the host calls req.run()
AdapterRun(rs) ==
    /\ adapter.ran < MaxRuns
    /\ Len(adapter.invocations) + Len(rs) <= MaxInvocations
    /\ adapter' = Adapter_run([adapter EXCEPT !.err = NoError], rs)
    /\ UNCHANGED <<programVars, lib>>

\* the wrapped function, which got cb from run(), calls it in a later turn
AdapterCallback(resArgs) ==
    /\ adapter.ran > 0
    /\ Len(adapter.invocations) < MaxInvocations
    /\ adapter' = Adapter_cb([adapter EXCEPT !.err = NoError], resArgs)
    /\ UNCHANGED <<programVars, lib>>

InitWrap == Init /\ prog = "substates"

NextWrap ==
    \/ \E r \in AdapterResults : AdapterRun(<<r>>)
    \/ AdapterRun(<<>>)
    \/ \E r \in AdapterResults : AdapterCallback(r)

SpecWrap == InitWrap /\ [][NextWrap]_vars

\* ------------------------------------------------------------- claims

\* the names user code and the programs pass to gotoState
Targets == Programs[prog].targets \cup {Programs[prog].init[f] : f \in FSMs}

\* the root segment of a state name
Root(state) == split(state)[1]

\* C1: after a transition that crosses a root boundary, every listener and
\* timer registered through the outgoing handle and its linked chain is gone
\* before the target's entry function starts, and none of those callbacks is
\* invoked after the transition. (Stated on the turn just run: no tear-down
\* left a registration behind, and no call went to a callback registered
\* through a handle that had been torn down.)
C1_TornDownAndSilent ==
    \A i \in 1..Len(log) : log[i].ev \notin {"leftBehind", "stale"}

\* C2: once a call h.gotoState(t) has returned without raising, every later
\* call h.gotoState(t2) raises the 'already used' error and changes nothing
\* of the FSM (state, history, pending stateChanged names, the handles); and
\* a handle that is invalid never becomes valid again.
C2_Rejected(r) ==
    /\ r.err = "AlreadyUsed"
    /\ r.fsm = fsm /\ r.handles = handles /\ r.immediates = immediates

C2_UsedHandleRejects ==
    \A h \in used : \A t \in Targets :
        C2_Rejected(FSMStateHandle_gotoState(World, h, t))

C2_StaysInvalid ==
    \A h \in 1..Len(handles) : ~handles[h].fsh_valid => ~handles'[h].fsh_valid

C3_ParentListener(c) ==
    /\ c.type = "goto"
    /\ Len(split(handles[c.h].fsh_state)) = 1
    /\ Root(c.target) # Root(handles[c.h].fsh_state)

\* the FSM of closure c is in a sub-state of the state that registered c
C3_InSubStateOf(c) ==
    /\ fsm[c.fsm].fsm_state # Undefined
    /\ StartsWith(fsm[c.fsm].fsm_state, handles[c.h].fsh_state \o <<Dot>>)

\* C3: while the machine is in a sub-state of P, an event whose listener
\* was registered by P's entry function through P's handle and which calls
\* gotoState(Q), Q unrelated to P, makes a successful transition to Q: the
\* turn raises nothing and the next state entered is Q (as in the last step
\* of the sequence bar, foobar, foobar, baz, foobar, bar, foo of the test
\* 'substates').
C3_ParentListenerLeaves ==
    [][\A k \in Programs[prog].events :
         (/\ Running
          /\ listeners[k] # <<>>
          /\ C3_ParentListener(listeners[k][1])
          /\ C3_InSubStateOf(listeners[k][1])
          /\ log' # <<>>
          /\ log'[1].ev \in {"invoke", "stale"}
          /\ log'[1].h = listeners[k][1].h
          /\ log'[1].name = listeners[k][1].target)
         => LET c == listeners[k][1]
            IN /\ lastErr' = NoError
               /\ Len(entered'[c.fsm]) > Len(entered[c.fsm])
               /\ entered'[c.fsm][Len(entered[c.fsm]) + 1] = c.target]_vars

\* the current state of f and the state of the handle its handle links to
\* are two different sub-states of one parent
C4_MovedToSibling(f) ==
    /\ fsm[f].fsm_handle # NoHandle
    /\ handles[fsm[f].fsm_handle].fsh_link # NoHandle
    /\ LET cur == split(fsm[f].fsm_state)
           prev == split(handles[handles[fsm[f].fsm_handle].fsh_link].fsh_state)
       IN Len(cur) = 2 /\ Len(prev) = 2 /\ cur[1] = prev[1] /\ cur[2] # prev[2]

\* C4: after a move from sub-state P.a to its sibling P.b, nothing that
\* P.a's entry function registered through its handle is still registered
\* (no listener, no timer), while what P's entry function registered is.
C4_SiblingTornDown ==
    \A f \in FSMs :
        (constructed /\ C4_MovedToSibling(f) /\ ~fsm[f].fsm_inTransition)
        => /\ ~LeftBehind(World, {handles[fsm[f].fsm_handle].fsh_link})
           /\ \A h \in ChainOf(World, fsm[f].fsm_handle) :
                 Len(split(handles[h].fsh_state)) = 1 =>
                    \A i \in 1..Len(handles[h].fsh_listeners) :
                       LET l == handles[h].fsh_listeners[i]
                       IN Includes(listeners[<<l[1], l[2]>>], l[3])

\* the number of elements of a sequence that equal x
RECURSIVE Count(_, _, _)
Count(ls, x, i) ==
    IF i > Len(ls) THEN 0 ELSE (IF ls[i] = x THEN 1 ELSE 0) + Count(ls, x, i + 1)

\* every registration of world w made through a handle of hs is in world r
C5_StillRegistered(w, r, hs) ==
    /\ \A k \in DOMAIN w.listeners : \A i \in 1..Len(w.listeners[k]) :
          (w.listeners[k][i].type = "goto" /\ w.listeners[k][i].h \in hs)
          => Count(r.listeners[k], w.listeners[k][i], 1)
                 >= Count(w.listeners[k], w.listeners[k][i], 1)
    /\ \A t \in w.timers : t.id[1] \in hs => t \in r.timers
    /\ \A i \in 1..Len(w.immediates) :
          w.immediates[i].id[1] \in hs =>
             \E j \in 1..Len(r.immediates) : r.immediates[j] = w.immediates[i]

\* r is the outcome of _gotoState(t) by FSM f from the current state, and
\* t was the only state f entered in it
C5_Kept(r, f) ==
    Len(r.entered[f]) = Len(entered[f]) + 1
    => /\ C5_StillRegistered(World, r, ChainOf(World, fsm[f].fsm_handle))
       /\ r.handles[Len(handles) + 1].fsh_link = fsm[f].fsm_handle

\* a transition of f to a state of the root of its current state
C5_SameRootKeeps ==
    \A f \in FSMs : \A t \in Targets :
        (/\ constructed
         /\ ~fsm[f].fsm_inTransition
         /\ fsm[f].fsm_handle # NoHandle
         /\ Root(t) = Root(fsm[f].fsm_state))
        => C5_Kept(FSM_gotoState(World, f, t), f)

\* whatever is registered through a handle of f was registered through a
\* handle of the chain of f's current handle
C5_OnlyChainRegistered ==
    \A f \in FSMs :
        ~LeftBehind(World, {h \in 1..Len(handles) : handles[h].fsh_fsm = f}
                              \ ChainOf(World, fsm[f].fsm_handle))

C6_NoAccumulation ==
    \A f \in FSMs :
        (/\ constructed
         /\ ~fsm[f].fsm_inTransition
         /\ Len(split(fsm[f].fsm_state)) = 1
         /\ Len(entered[f]) > 1
         /\ StartsWith(entered[f][Len(entered[f]) - 1], fsm[f].fsm_state \o <<Dot>>)
         /\ \A i \in 1..Len(accepted[f]) :
               Root(accepted[f][i]) = Root(fsm[f].fsm_state))
        => \A k \in DOMAIN listeners :
              LET body == StateFunction(fsm[f].cls, Root(fsm[f].fsm_state)).body
                  regs == {pc \in 1..Len(body) :
                             /\ body[pc].op = "on"
                             /\ <<Resolve(World, f, body[pc].em), body[pc].evt>> = k}
                  mine == {i \in 1..Len(listeners[k]) :
                             /\ listeners[k][i].type = "goto"
                             /\ listeners[k][i].fsm = f}
              IN Cardinality(mine) = Cardinality(regs)

\* no stateChanged is delivered in the turn of the transition it reports:
\* in the events of one turn, the k-th completed transition of an FSM is
\* never followed by the delivery of its k-th stateChanged
C7_Deferred ==
    \A i \in 1..Len(log) : \A j \in i..Len(log) :
        ~ /\ log[i].ev = "completed"
          /\ log[j].ev = "stateChanged"
          /\ log[j].fsm = log[i].fsm
          /\ log[j].h = log[i].h

C7_FlushPending(f) ==
    \E i \in 1..Len(immediates) :
        immediates[i].cb.type = "flush" /\ immediates[i].cb.fsm = f

C8_From(q, n) == SubSeq(q, n + 1, Len(q))

\* in the events of a turn, between the start and the return of an entry
\* function of an FSM, no entry function of that FSM starts and no handle
\* of that FSM is torn down
C8_NothingDuringEntry ==
    \A i \in 1..Len(log) : \A j \in i..Len(log) :
        (/\ log[i].ev = "enter" /\ log[j].ev = "return"
         /\ log[j].fsm = log[i].fsm /\ log[j].h = log[i].h)
        => \A k \in (i + 1)..(j - 1) :
              ~(log[k].fsm = log[i].fsm /\ log[k].ev \in {"enter", "disconnect"})

\* event i of the turn happens while an entry function of its FSM runs
C8_DuringEntry(i) ==
    \E e \in 1..(i - 1) :
        /\ log[e].ev = "enter" /\ log[e].fsm = log[i].fsm
        /\ \A k \in (e + 1)..(i - 1) :
              ~(log[k].ev = "return" /\ log[k].fsm = log[i].fsm)

\* a target queued by a call made during an entry function is the next
\* state the FSM enters, after that entry function has returned, in the
\* same turn (unless the turn ends in an error)
C8_QueuedIsNext ==
    \A i \in 1..Len(log) :
        (log[i].ev = "queued" /\ C8_DuringEntry(i)) =>
           /\ \A j \in (i + 1)..Len(log) :
                 (/\ log[j].ev = "enter" /\ log[j].fsm = log[i].fsm
                  /\ \A k \in (i + 1)..(j - 1) :
                        ~(log[k].ev = "enter" /\ log[k].fsm = log[i].fsm))
                 => /\ log[j].name = log[i].name
                    /\ \E k \in (i + 1)..(j - 1) :
                          log[k].ev = "return" /\ log[k].fsm = log[i].fsm
           /\ (lastErr = NoError /\ \A k \in 1..Len(log) : log[k].ev \notin ErrorKinds)
              => \E j \in (i + 1)..Len(log) :
                    log[j].ev = "enter" /\ log[j].fsm = log[i].fsm

\* in a turn that raises nothing, the states an FSM enters are the targets
\* of the gotoState calls let through in it, in the order of the calls
C8_EnteredInCallOrder ==
    \A f \in FSMs :
        (/\ constructed /\ ~fsm[f].fsm_inTransition
         /\ lastErr' = NoError
         /\ \A k \in 1..Len(log') : log'[k].ev \notin ErrorKinds)
        => C8_From(entered'[f], Len(entered[f])) = C8_From(accepted'[f], Len(accepted[f]))

C9_Rejected(r) ==
    /\ r.err = "InvalidTransition"
    /\ r.fsm = fsm /\ r.handles = handles /\ r.listeners = listeners
    /\ r.timers = timers /\ r.immediates = immediates
    /\ r.observed = observed /\ r.entered = entered

\* the outcome r of a call is not a refusal by the handle
C9_LetThrough(r, f) ==
    /\ r.err \notin {"InvalidTransition", "AlreadyUsed"}
    /\ Len(r.accepted[f]) = Len(accepted[f]) + 1

\* on a valid handle with a list of valid transitions, a call with a target
\* that is not in the list is rejected, and one with a member is let through
C9_OnlyListed ==
    \A h \in 1..Len(handles) : \A t \in Targets :
        (handles[h].fsh_valid /\ handles[h].fsh_validTransitions # UndefinedList)
        => IF Includes(handles[h].fsh_validTransitions, t)
           THEN C9_LetThrough(FSMStateHandle_gotoState(World, h, t), handles[h].fsh_fsm)
           ELSE C9_Rejected(FSMStateHandle_gotoState(World, h, t))

\* a state whose handle declared validTransitions([]) is not left by any
\* step, and its handle stays valid
C9_EmptyListStays ==
    \A f \in FSMs :
        (/\ fsm[f].fsm_handle # NoHandle
         /\ handles[fsm[f].fsm_handle].fsh_valid
         /\ handles[fsm[f].fsm_handle].fsh_validTransitions = <<>>)
        => /\ fsm'[f].fsm_state = fsm[f].fsm_state
           /\ fsm'[f].fsm_handle = fsm[f].fsm_handle
           /\ fsm'[f].fsm_history = fsm[f].fsm_history
           /\ handles'[fsm[f].fsm_handle].fsh_valid

\* C9: a call gotoState(t) on a (valid) handle with a validTransitions list
\* that does not contain t raises 'Invalid FSM transition' and changes
\* nothing (state, history, listeners, timers, names to emit; the handle
\* stays valid), a later call with a member of the list is let through, and
\* a state that declared validTransitions([]) is never left.
C9_InvalidTransitionRejected ==
    /\ [](C9_OnlyListed)
    /\ [][C9_EmptyListStays]_vars

\* C9's case: a call on a handle with a list was rejected, the handle is
\* still valid, and its list has a member
C9_Witness ==
    /\ lastErr = "InvalidTransition"
    /\ \E i \in 1..Len(log) :
          /\ log[i].ev \in {"invoke", "direct"}
          /\ handles[log[i].h].fsh_valid
          /\ handles[log[i].h].fsh_validTransitions # <<>>
          /\ ~Includes(handles[log[i].h].fsh_validTransitions, log[i].name)

\* the name is one of a state the class declares: its root has an entry
\* function and its second segment, if any, is a sub-state of that root
C10_Declared(cls, name) ==
    /\ Root(name) \in DOMAIN Classes[cls].states
    /\ Len(split(name)) >= 2 =>
          split(name)[2] \in DOMAIN Classes[cls].states[Root(name)].subs

\* C10: a request for a state whose root has no entry function, or whose
\* sub-segment is not a sub-state of the root, is rejected and leaves the
\* machine where it was: the state, the history and the names delivered or
\* to be delivered in stateChanged are names of declared states only.
C10_OnlyDeclaredStates ==
    \A f \in FSMs :
        /\ fsm[f].fsm_state # Undefined => C10_Declared(fsm[f].cls, fsm[f].fsm_state)
        /\ \A i \in 1..Len(fsm[f].fsm_history) :
              C10_Declared(fsm[f].cls, fsm[f].fsm_history[i])
        /\ \A i \in 1..Len(fsm[f].fsm_toEmit) :
              C10_Declared(fsm[f].cls, fsm[f].fsm_toEmit[i])
        /\ \A i \in 1..Len(observed[f]) : C10_Declared(fsm[f].cls, observed[f][i])

\* C11: a transition to a name with two or more dots (also one whose first
\* two segments name an existing sub-state, as 'initial.sub1.x') raises and
\* leaves the machine where it was; so the name of the current state, and
\* every name in the history, has at most one dot.
C11_AtMostOneDot ==
    \A f \in FSMs :
        /\ fsm[f].fsm_state # Undefined => Len(split(fsm[f].fsm_state)) <= 2
        /\ \A i \in 1..Len(fsm[f].fsm_history) :
              Len(split(fsm[f].fsm_history[i])) <= 2

\* C12: a call gotoState(t) that raises leaves the valid flag of the handle
\* as it was; that is, whenever the valid flag of a handle changes from
\* true to false, the transition to the target recorded in the handle was
\* made: the FSM entered that state in the same turn.
C12_FlipMeansEntered ==
    [][\A h \in 1..Len(handles) :
         (handles[h].fsh_valid /\ ~handles'[h].fsh_valid)
         => \E i \in 1..Len(log') :
               /\ log'[i].ev = "enter"
               /\ log'[i].fsm = handles[h].fsh_fsm
               /\ log'[i].name = handles'[h].fsh_nextState]_vars

\* the entry function of the state called name registers a listener for
\* event e on the FSM f itself
C13_EntryRegisters(f, name, e) ==
    LET body == Resolution(fsm[f].cls, split(name)).body
    IN \E pc \in 1..Len(body) :
          /\ body[pc].op \in {"on", "emitterOnTry", "emitterOnCallback"}
          /\ Resolve(World, f, body[pc].em) = f
          /\ body[pc].evt = e

\* C13 as stated: whenever the entry function of a state that registers no
\* listener for a declared all-state event on the FSM has returned, the
\* consistency error is raised at once, whoever else has a listener for
\* the event.
C13_EntryMustRegister ==
    \A i \in 1..Len(log) :
        (/\ log[i].ev = "return"
         /\ \E k \in 1..Len(fsm[log[i].fsm].fsm_allStateEvents) :
               ~C13_EntryRegisters(log[i].fsm, log[i].name,
                                   fsm[log[i].fsm].fsm_allStateEvents[k]))
        => \/ i = Len(log) /\ lastErr = "ConsistencyError"
           \/ i < Len(log) /\ log[i + 1].ev = "ConsistencyError"

\* FSM f entered exactly one state in the step, its entry function
\* returned, and the turn raised nothing but, possibly, the consistency error
C13_OneEntry(f) ==
    /\ Len(entered'[f]) = Len(entered[f]) + 1
    /\ \E i \in 1..Len(log') : log'[i].ev = "return" /\ log'[i].fsm = f
    /\ lastErr' \in {NoError, "ConsistencyError"}
    /\ \A i \in 1..Len(log') : log'[i].ev \notin ErrorKinds

\* C13, amended: when the entry function of the state entered has returned
\* and the FSM has no listener at all for a declared all-state event (none
\* registered by the entry function, none kept from a handle of the same
\* root, none of any other party), the transition raises the consistency
\* error at once: the state is not queued for stateChanged and a target
\* queued inline stays queued; when every all-state event has a listener,
\* whoever registered it, the consistency error is not raised.
C13_AllStateChecked ==
    [][\A f \in FSMs :
         C13_OneEntry(f) =>
            IF \E k \in 1..Len(fsm[f].fsm_allStateEvents) :
                  listeners'[<<f, fsm[f].fsm_allStateEvents[k]>>] = <<>>
            THEN /\ lastErr' = "ConsistencyError"
                 /\ log'[Len(log')].ev = "return"
                 /\ completed'[f] = completed[f]
                 /\ fsm'[f].fsm_toEmit = fsm[f].fsm_toEmit
                 /\ (\E i \in 1..Len(log') : log'[i].ev = "queued" /\ log'[i].fsm = f)
                    => fsm'[f].fsm_nextState # Undefined
            ELSE /\ lastErr' = NoError
                 /\ Len(completed'[f]) = Len(completed[f]) + 1]_vars

\* C13's case: the FSM has entered, without an error, a state whose entry
\* function registers no listener for the all-state event, for which a
\* listener of the parent state is still registered
C13_Witness ==
    \E f \in FSMs :
        /\ fsm[f].fsm_allStateEvents # <<>>
        /\ lastErr = NoError
        /\ log # <<>> /\ log[Len(log)].ev = "completed"
        /\ ~C13_EntryRegisters(f, fsm[f].fsm_state, fsm[f].fsm_allStateEvents[1])
        /\ listeners[<<f, fsm[f].fsm_allStateEvents[1]>>] # <<>>

\* the arguments a closure made by S.callback may be called with
C14_Args == {Undefined, <<"data">>}

\* the outcome r of a call of closure c = S.callback(f) with argument arg
\* on a valid handle: f was called once, with arg, before anything else
C14_Forwarded(r, c, arg) ==
    /\ r.log # <<>>
    /\ r.log[1] = [ev |-> "called", fsm |-> c.fsm, h |-> c.h, name |-> arg]
    /\ \A i \in 2..Len(r.log) : ~(r.log[i].ev = "called" /\ r.log[i].h = c.h)
    /\ Len(r.log) >= 2 /\ r.log[2].ev = "invoke" /\ r.log[2].name = c.target

\* the outcome r of a call of closure c on a handle that is not valid: f
\* was not called, nothing was raised and nothing changed
C14_Ignored(r, c) ==
    /\ \A i \in 1..Len(r.log) : r.log[i].ev \notin {"called", "invoke", "enter"}
    /\ r.err = NoError
    /\ r.fsm = fsm /\ r.handles = handles /\ r.listeners = listeners
    /\ r.timers = timers /\ r.immediates = immediates /\ r.entered = entered

\* C14: a call of a closure g = S.callback(f) while the handle is valid
\* calls f exactly once with the arguments of the call; a call after the
\* handle was used for a transition or torn down does not call f, returns
\* without raising and leaves the FSM's state unchanged.
C14_CallbackGuarded ==
    \A k \in DOMAIN listeners : \A i \in 1..Len(listeners[k]) : \A arg \in C14_Args :
        listeners[k][i].type = "callback" =>
           IF handles[listeners[k][i].h].fsh_valid
           THEN C14_Forwarded(Invoke(World, listeners[k][i], arg), listeners[k][i], arg)
           ELSE /\ C14_Ignored(Invoke(World, listeners[k][i], arg), listeners[k][i])
                /\ listeners[k][i].h \in used \cup torn

\* C14's case: in the last turn a closure made by S.callback was called
\* after its handle had been used to leave the state and torn down, and it
\* did nothing
C14_Witness ==
    /\ log # <<>>
    /\ log[1].ev = "ignored"
    /\ log[1].h \in used \cap torn
    /\ fsm[log[1].fsm].fsm_state # handles[log[1].h].fsh_state

\* C15: in every state, also after a transition that was rejected with an
\* error, the FSM's state is defined exactly if the FSM holds a current
\* handle, and the state name of that handle is the FSM's state.
C15_StateIffHandle ==
    \A f \in FSMs :
        /\ fsm[f].fsm_state # Undefined <=> fsm[f].fsm_handle # NoHandle
        /\ fsm[f].fsm_handle # NoHandle =>
              handles[fsm[f].fsm_handle].fsh_state = fsm[f].fsm_state

\* the handles of FSM f on which a gotoState call returned without raising
C16_UsedOf(f) == {h \in used : handles[h].fsh_fsm = f}

\* the target of the most recent gotoState call of FSM f that returned
\* without raising, or the initial state (at most one handle of an FSM is
\* valid at a time, so the calls let through are in the handles' order)
C16_LastTarget(f) ==
    IF C16_UsedOf(f) = {} THEN Programs[prog].init[f]
    ELSE handles[CHOOSE h \in C16_UsedOf(f) : \A g \in C16_UsedOf(f) : g <= h].fsh_nextState

\* no entry function of f is executing and no next state is queued
C16_Quiet(f) ==
    /\ constructed
    /\ ~fsm[f].fsm_inTransition
    /\ fsm[f].fsm_nextState = Undefined

C17_EntryOf(cls, name) ==
    IF Len(split(name)) = 1 THEN Classes[cls].states[Root(name)].body
    ELSE Classes[cls].states[Root(name)].subs[split(name)[2]].body

\* r is the outcome of a transition of FSM f to the declared state t in
\* which f entered t and nothing else and which raised nothing: one handle
\* was allocated for f, for t, and it is the current one and was not there
\* before; the listeners registered through it are those of the statements
\* of t's entry function, once each, on f's emitters; the history got t
C17_EntryRanOnce(r, f, t) ==
    (Len(r.entered[f]) = Len(entered[f]) + 1 /\ r.err = NoError)
    => LET h == Len(handles) + 1
           body == C17_EntryOf(fsm[f].cls, t)
       IN /\ Len(r.handles) >= h
          /\ {g \in h..Len(r.handles) : r.handles[g].fsh_fsm = f} = {h}
          /\ r.handles[h].fsh_state = t
          /\ r.fsm[f].fsm_handle = h
          /\ r.fsm[f].fsm_state = t
          /\ r.handles[h].fsh_valid
          /\ r.entered[f][Len(r.entered[f])] = t
          /\ r.fsm[f].fsm_history[Len(r.fsm[f].fsm_history)] = t
          /\ Cardinality({i \in 1..Len(r.log) :
                 r.log[i].ev = "enter" /\ r.log[i].fsm = f}) = 1
          /\ \A pc \in 1..Len(body) :
                body[pc].op = "on" =>
                   Count(r.listeners[<<Resolve(World, f, body[pc].em), body[pc].evt>>],
                         Closure("goto", f, h, pc, body[pc].target), 1) = 1
          /\ \A k \in DOMAIN r.listeners : \A i \in 1..Len(r.listeners[k]) :
                (r.listeners[k][i].type # "observer" /\ r.listeners[k][i].h = h)
                => /\ r.listeners[k][i].pc \in 1..Len(body)
                   /\ body[r.listeners[k][i].pc].op \in {"on", "emitterOnTry", "emitterOnCallback"}
                   /\ body[r.listeners[k][i].pc].target = r.listeners[k][i].target
                   /\ k = <<Resolve(World, f, body[r.listeners[k][i].pc].em),
                            body[r.listeners[k][i].pc].evt>>

C18_ReentryTrigger(c) ==
    /\ c.type = "goto"
    /\ handles[c.h].fsh_state = c.target
    /\ fsm[c.fsm].fsm_state = c.target
    /\ ~fsm[c.fsm].fsm_inTransition

\* C18: re-entry into the same state is legal: each firing of a trigger
\* that the entry function of S registered and that calls gotoState(S),
\* however often it is repeated, raises nothing, enters S once more (the
\* entry function runs, S is pushed to the history) and yields one more
\* stateChanged(S).
C18_ReentryEachTime ==
    [][\A k \in Programs[prog].events :
         (/\ Running
          /\ listeners[k] # <<>>
          /\ C18_ReentryTrigger(listeners[k][1])
          /\ log' # <<>>
          /\ log'[1].ev \in {"invoke", "stale"}
          /\ log'[1].h = listeners[k][1].h
          /\ log'[1].name = listeners[k][1].target)
         => LET c == listeners[k][1]
            IN /\ lastErr' = NoError
               /\ entered'[c.fsm] = Append(entered[c.fsm], c.target)
               /\ completed'[c.fsm] = Append(completed[c.fsm], c.target)]_vars

\* the first stateChanged an observer subscribed right after construction
\* receives is that of the initial state
C19_FirstIsInitial ==
    \A f \in FSMs : observed[f] # <<>> => observed[f][1] = Programs[prog].init[f]

\* C19 as stated: when construction with initial state s0 returns, the
\* state is s0 and the history is [s0] (s0's entry function has run once),
\* nothing has been delivered yet, and one stateChanged(s0) is to be
\* delivered, as the first notification, on a later turn.
C19_ConstructedInInitial ==
    /\ [][(~constructed /\ constructed') =>
            \A f \in FSMs :
               /\ fsm'[f].fsm_state = Programs[prog].init[f]
               /\ fsm'[f].fsm_history = <<Programs[prog].init[f]>>
               /\ entered'[f] = <<Programs[prog].init[f]>>
               /\ observed'[f] = <<>>
               /\ fsm'[f].fsm_toEmit = <<Programs[prog].init[f]>>]_vars
    /\ [](C19_FirstIsInitial)

\* what holds of FSM f in the state construction leaves
C19_AfterConstruction(f) ==
    /\ lastErr' = NoError
    /\ entered'[f] # <<>> /\ entered'[f][1] = Programs[prog].init[f]
    /\ fsm'[f].fsm_history = entered'[f]
    /\ fsm'[f].fsm_state = entered'[f][Len(entered'[f])]
    /\ observed'[f] = <<>>
    /\ fsm'[f].fsm_toEmit = entered'[f]
    /\ Cardinality({i \in 1..Len(immediates') :
           immediates'[i].cb.type = "flush" /\ immediates'[i].cb.fsm = f}) = 1
    /\ (\A i \in 1..Len(log') : ~(log'[i].ev = "inline" /\ log'[i].fsm = f))
       => entered'[f] = <<Programs[prog].init[f]>>
    /\ \A i \in 1..Len(log') :
          (/\ log'[i].ev = "inline" /\ log'[i].fsm = f
           /\ \A j \in 1..(i - 1) : ~(log'[j].ev = "inline" /\ log'[j].fsm = f))
          => Len(entered'[f]) >= 2 /\ entered'[f][2] = log'[i].name

\* C19, amended: when construction with initial state s0 returns, s0's
\* entry function has run exactly once and s0 is the first name of the
\* history; the state is s0 and the history is [s0] if s0's entry function
\* made no gotoState call, else the target of that call has been entered
\* too and is the next name of the history. Nothing has been delivered,
\* one deferred emission is scheduled for the states entered, and the
\* first stateChanged an observer subscribed right after construction
\* receives is stateChanged(s0).
C19_ConstructedFromInitial ==
    /\ [][(~constructed /\ constructed') =>
            \A f \in FSMs : C19_AfterConstruction(f)]_vars
    /\ [](C19_FirstIsInitial)

\* C19's case: stateChanged of the initial state has been delivered to the
\* observer of an FSM whose initial entry function made a gotoState call,
\* before the stateChanged of the state that call asked for
C19_Witness ==
    \E f \in FSMs :
        /\ Len(observed[f]) >= 2
        /\ observed[f][1] = Programs[prog].init[f]
        /\ entered[f][2] # Programs[prog].init[f]
        /\ handles[1].fsh_nextState = entered[f][2]
        /\ handles[1].fsh_state = Programs[prog].init[f]
        /\ fsm[f].fsm_history[1] = Programs[prog].init[f]

\* the number of names the history keeps
C20_Kept == HistoryLimit - 1

\* the last n elements of sequence q
C20_Last(q, n) == SubSeq(q, Len(q) - n + 1, Len(q))

\* C20: after n states entered, the history is the last min(n, 7) names
\* entered, in the order they were entered, and it is never longer than 7.
C20_HistoryIsRecent ==
    \A f \in FSMs :
        /\ Len(fsm[f].fsm_history) <= C20_Kept
        /\ fsm[f].fsm_history =
              C20_Last(entered[f],
                       IF Len(entered[f]) < C20_Kept THEN Len(entered[f]) ELSE C20_Kept)

\* C20's case: an FSM has entered more states than the history keeps, and
\* the oldest names are gone
C20_Witness ==
    \E f \in FSMs :
        /\ Len(entered[f]) > C20_Kept + 1
        /\ Len(fsm[f].fsm_history) = C20_Kept
        /\ fsm[f].fsm_history[1] = entered[f][Len(entered[f]) - C20_Kept + 1]

\* the names isInState is asked about: the names the program uses and every
\* beginning of one of them (as 'initial.' of 'initial.sub1', 'next' of
\* 'next2')
C21_Queries ==
    UNION {{SubSeq(t, 1, n) : n \in 1..Len(t)} :
              t \in Targets \cup UNION {{entered[f][i] : i \in 1..Len(entered[f])} : f \in FSMs}}

\* the segments of q are the first segments of the name s
C21_SegmentsBegin(s, q) ==
    /\ Len(split(q)) <= Len(split(s))
    /\ \A i \in 1..Len(split(q)) : split(q)[i] = split(s)[i]

\* C21: isInState(q) is true exactly when the current state is q or begins
\* with q followed by a dot, that is, when the segments of q are the first
\* segments of the current state: true for the parent and for the sub-state
\* itself while in a sub-state, false for a sibling, false for a sub-state
\* while in the parent, false for a name that is only the beginning of the
\* text of the root's name.
C21_IsInStateBySegments ==
    \A f \in FSMs : \A q \in C21_Queries :
        fsm[f].fsm_state # Undefined =>
           (FSM_isInState(World, f, q) <=> C21_SegmentsBegin(fsm[f].fsm_state, q))

\* C21's case: in a sub-state isInState is true of the parent and false of
\* the parent's name followed by a dot alone
C21_Witness ==
    \E f \in FSMs :
        /\ fsm[f].fsm_state # Undefined
        /\ Len(split(fsm[f].fsm_state)) = 2
        /\ FSM_isInState(World, f, Root(fsm[f].fsm_state))
        /\ FSM_isInState(World, f, fsm[f].fsm_state)
        /\ ~FSM_isInState(World, f, Root(fsm[f].fsm_state) \o <<Dot>>)

\* C22: after a turn in which an entry function raised, the exception has
\* reached the caller, the FSM's state is the state being entered, its
\* handle is the one of that state, and inTransition is false, so that a
\* later gotoState is not queued behind the re-entrancy guard.
C22_EntryRaiseClearsGuard ==
    \A i \in 1..Len(log) :
        (/\ log[i].ev = "enter"
         /\ lastErr # NoError
         /\ \A j \in (i + 1)..Len(log) :
               ~(log[j].fsm = log[i].fsm /\ log[j].ev \in {"return", "enter"}))
        => /\ fsm[log[i].fsm].fsm_state = log[i].name
           /\ fsm[log[i].fsm].fsm_handle = log[i].h
           /\ ~fsm[log[i].fsm].fsm_inTransition

\* the emits after the call k of onState whose name is the state asked for
\* or starts with it followed by a dot
C23_Matching(k) ==
    {j \in (lib.calls[k].at + 1)..Len(lib.emitted) :
        \/ lib.emitted[j] = lib.calls[k].state
        \/ StartsWith(lib.emitted[j], lib.calls[k].state \o <<Dot>>)}

\* C23: for every call onState(s, cb), cb is invoked at most once in total:
\* inside the call if the machine is then in s or in a sub-state of s,
\* otherwise at the first stateChanged after the call whose name is s or
\* starts with s followed by a dot, and at no earlier or later stateChanged.
C23_OnStateFirstMatch ==
    \A k \in 1..Len(lib.calls) :
        IF \/ lib.calls[k].was = lib.calls[k].state
           \/ StartsWith(lib.calls[k].was, lib.calls[k].state \o <<Dot>>)
        THEN lib.calls[k].invoked = <<0>>
        ELSE IF C23_Matching(k) = {} THEN lib.calls[k].invoked = <<>>
        ELSE \E j \in C23_Matching(k) :
                /\ \A i \in C23_Matching(k) : j <= i
                /\ lib.calls[k].invoked = <<j>>

\* what the claim expects of one invocation of the callback: 'error' with
\* the first argument if it is truthy, else 'return' with the other arguments
C24_Expected(resArgs) ==
    IF resArgs # <<>> /\ Truthy(resArgs[1])
    THEN [evt |-> "error", args |-> <<resArgs[1]>>]
    ELSE [evt |-> "return", args |-> SubSeq(resArgs, 2, Len(resArgs))]

\* C24: an adapter made by FSM.wrap emits nothing before run() is called,
\* and each invocation of the callback emits exactly one event: 'error' with
\* the first argument if it is truthy, otherwise 'return' with the remaining
\* arguments in their order; never both for one invocation.
C24_OneEventPerInvocation ==
    /\ adapter.ran = 0 => adapter.emitted = <<>>
    /\ Len(adapter.emitted) = Len(adapter.invocations)
    /\ \A i \in 1..Len(adapter.invocations) :
          adapter.emitted[i] = C24_Expected(adapter.invocations[i])

\* C24 witness: the callback has been invoked with a truthy first argument
\* and with a falsy one followed by two values, after run()
C24_Witness ==
    /\ adapter.ran > 0
    /\ \E i, j \in 1..Len(adapter.invocations) :
          /\ adapter.emitted[i].evt = "error"
          /\ adapter.emitted[j] = [evt |-> "return", args |-> <<"foobar", "baz">>]

\* C25: over any number of invocations of the callback and of run(), one
\* adapter emits at most one event in total, the one of the first invocation.
C25_AtMostOneEvent == Len(adapter.emitted) <= 1

\* the listeners req.once('error', ...) and req.once('return', ...) are
\* called for the first 'error' and the first 'return' emitted
C25_FirstOf(evt) ==
    {i \in 1..Len(adapter.emitted) :
        /\ adapter.emitted[i].evt = evt
        /\ \A j \in 1..(i - 1) : adapter.emitted[j].evt # evt}

\* C25, as the code has it: the adapter has no guard against several
\* completions, so it emits one event for every invocation of the callback
\* (as many events as invocations, whatever the number of run() calls); a
\* listener registered with once is called for the first event of its name
\* only, and a second 'error' finds no listener and is thrown.
C25_OneEventEach ==
    /\ Len(adapter.emitted) = Len(adapter.invocations)
    /\ Len(adapter.received) <= 2
    /\ \A i \in 1..Len(adapter.received) :
          \E j \in C25_FirstOf(adapter.received[i].evt) :
              adapter.received[i] = adapter.emitted[j]
    /\ adapter.err # NoError =>
          /\ adapter.emitted[Len(adapter.emitted)].evt = "error"
          /\ C25_FirstOf("error") # {Len(adapter.emitted)}

\* C25 witness: the callback was invoked three times after one run(), and
\* three events were emitted
C25_Witness ==
    /\ adapter.ran = 1
    /\ Len(adapter.invocations) = 3
    /\ Len(adapter.emitted) = 3

\* the event i of the turn is _gotoState starting to perform a request
C26_Performed(i) == log[i].ev \in {"kept", "tornDown", "leftBehind"}

\* the request performed at event i had been stored by a call that
\* returned to its caller (it is performed by the drain of another call)
C26_Drained(i) ==
    \E j \in 1..(i - 1) :
        /\ log[j].ev = "queued"
        /\ log[j].fsm = log[i].fsm
        /\ log[j].name = log[i].name
        /\ \A k \in (j + 1)..(i - 1) : ~(C26_Performed(k) /\ log[k].fsm = log[i].fsm)

\* C26: every error of a bad transition request is raised inside the
\* gotoState call that made the request, also when the call is made inline
\* in an entry function: when a turn ends with the unknown state or
\* unknown sub-state error, the request whose look-up failed (the last one
\* _gotoState started to perform) was not one stored by a call that had
\* returned normally.
C26_RaisedInTheRequest ==
    lastErr \in {"UnknownState", "UnknownSubState"} =>
        \A i \in 1..Len(log) :
            (C26_Performed(i) /\ \A k \in (i + 1)..Len(log) : ~C26_Performed(k))
                => ~C26_Drained(i)

\* the world differs from w only in the handle's own lists: no listener on
\* any emitter, no timer and no immediate has been added
C27_NothingRegistered(r, w) ==
    /\ r.listeners = w.listeners
    /\ r.timers = w.timers
    /\ r.immediates = w.immediates

\* C27: calling on, timeout, interval or immediate on a handle that has been
\* torn down is a no-op: no listener is added to any emitter and no timer is
\* scheduled. (Stated for user code that kept the handle S of a state that
\* has been left and calls S.on(e, 'foo', cb), S.timeout(ms, cb),
\* S.interval(ms, cb) or S.immediate(cb) now.)
C27_TornHandleRegistersNothing ==
    \A h \in torn :
        /\ C27_NothingRegistered(
               FSMStateHandle_on(World, h, "e", "foo",
                   Closure("goto", handles[h].fsh_fsm, h, 0, handles[h].fsh_state)),
               World)
        /\ C27_NothingRegistered(
               FSMStateHandle_timeout(World, h,
                   Closure("goto", handles[h].fsh_fsm, h, 0, handles[h].fsh_state)),
               World)
        /\ C27_NothingRegistered(
               FSMStateHandle_interval(World, h,
                   Closure("goto", handles[h].fsh_fsm, h, 0, handles[h].fsh_state)),
               World)
        /\ C27_NothingRegistered(
               FSMStateHandle_immediate(World, h,
                   Closure("goto", handles[h].fsh_fsm, h, 0, handles[h].fsh_state)),
               World)

\* the deferred emissions scheduled for FSM f
C28_Flushes(f) ==
    {i \in 1..Len(immediates) :
        immediates[i].cb.type = "flush" /\ immediates[i].cb.fsm = f}

C29_AssertionHolds ==
    /\ lastErr # "AssertionError"
    /\ \A i \in 1..Len(log) : log[i].ev # "AssertionError"

\* between two requests stored in one turn for one FSM, the FSM has entered
\* a state: one entry function execution stores at most one request
C29_OneQueuedPerEntry ==
    \A i \in 1..Len(log) : \A j \in (i + 1)..Len(log) :
        (/\ log[i].ev = "queued" /\ log[j].ev = "queued"
         /\ log[i].fsm = log[j].fsm)
        => \E k \in (i + 1)..(j - 1) : log[k].ev = "enter" /\ log[k].fsm = log[i].fsm

C30_Executing(l, f, i) ==
    \E j \in 1..(i - 1) :
        /\ l[j].ev = "enter" /\ l[j].fsm = f
        /\ \A k \in (j + 1)..(i - 1) : ~(l[k].ev = "return" /\ l[k].fsm = f)

\* event i of the turn l is a call of gotoState on a handle
C30_Request(l, i) == l[i].ev \in {"invoke", "stale", "inline", "direct"}

\* the request at event i is performed at once and to its end, before the
\* entry function of any FSM of fs returns: the target is entered next and
\* its transition completes
C30_PerformedNow(l, i, fs) ==
    \E j \in (i + 1)..Len(l) : \E c \in (j + 1)..Len(l) :
        /\ l[j].ev = "enter" /\ l[j].fsm = l[i].fsm /\ l[j].name = l[i].name
        /\ \A k \in (i + 1)..(j - 1) :
              l[k].fsm = l[i].fsm
              /\ l[k].ev \in {"disconnect", "tornDown", "kept"}
        /\ l[c].ev = "completed" /\ l[c].fsm = l[i].fsm /\ l[c].name = l[i].name
        /\ \A k \in (i + 1)..c : ~(l[k].ev = "return" /\ l[k].fsm \in fs)

\* the result r of a transition of FSM f leaves the other FSMs as they
\* were, unless a listener of theirs was called
C30_OthersUntouched(r, f) ==
    \A g \in FSMs \ {f} :
        (\A i \in 1..Len(r.log) : r.log[i].fsm # g) =>
            /\ r.fsm[g] = fsm[g]
            /\ r.observed[g] = observed[g]
            /\ \A h \in 1..Len(handles) :
                  handles[h].fsh_fsm = g => r.handles[h] = handles[h]

\* no call of gotoState on a handle of one FSM changes another FSM
C30_Frame ==
    \A h \in 1..Len(handles) : \A t \in Targets :
        C30_OthersUntouched(FSMStateHandle_gotoState(World, h, t), handles[h].fsh_fsm)

\* in one turn that raises nothing: a request is stored only for an FSM
\* that is in a transition of its own, and a request to an FSM that is not,
\* made while other FSMs execute entry functions, is performed at once
C30_OwnGuard ==
    lastErr' = NoError =>
        \A i \in 1..Len(log') :
            /\ log'[i].ev = "queued" =>
                  \/ C30_Executing(log', log'[i].fsm, i)
                  \/ fsm[log'[i].fsm].fsm_inTransition
            /\ (/\ C30_Request(log', i)
                /\ ~C30_Executing(log', log'[i].fsm, i)
                /\ ~fsm[log'[i].fsm].fsm_inTransition
                /\ \E f \in FSMs \ {log'[i].fsm} : C30_Executing(log', f, i))
               => C30_PerformedNow(log', i,
                      {f \in FSMs \ {log'[i].fsm} : C30_Executing(log', f, i)})

\* C30: with two FSMs that listen to each other's events, a transition of
\* one changes nothing of the other (state, history, handle, pending next
\* state, inTransition flag, emission buffer) unless a listener of the other
\* is called; while one executes an entry function, a transition requested
\* on the other is performed at once and to its end, and only requests to
\* an FSM that is itself in a transition are stored for later.
C30_Isolated == [](C30_Frame) /\ [][C30_OwnGuard]_vars

\* C30 witness: in one turn, while FSM a was executing an entry function,
\* a request to b was performed to its end and a request to a was stored
C30_Witness ==
    /\ lastErr = NoError
    /\ \E i \in 1..Len(log) : \E q \in (i + 1)..Len(log) :
          /\ C30_Request(log, i) /\ log[i].fsm = "b"
          /\ C30_Executing(log, "a", i)
          /\ C30_PerformedNow(log, i, {"a"})
          /\ log[q].ev = "queued" /\ log[q].fsm = "a"
          /\ C30_Executing(log, "a", q)

\* the handles allocated so far for FSM f, by allocation
C31_HandlesOf(f) == {h \in 1..Len(handles) : handles[h].fsh_fsm = f}

====
